---- MODULE Spec2Model ----
(***************************************************************************)
(* Model of package wikidump (ebonetti/wikidump): the iterator returned by *)
(* Wikidump.Open, the retrying fetcher stubbornStore, the spooling store   *)
(* and the decompression selector with the close actions of its streams.   *)
(***************************************************************************)
EXTENDS Integers, Sequences, FiniteSets, TLC

(* ------------------------------ bounds --------------------------------- *)
\* number of distinct byte contents a mirror may serve for one URL
MaxContent == 2

(* -------------------------- program constants -------------------------- *)
\* time.Second and time.Hour, in seconds
Second == 1
Hour == 3600

\* the iterators a caller may obtain from the hub
Iters == {1, 2}
Contents == 1..MaxContent

(* ------------------------------ digests -------------------------------- *)
\* sha1 of a content, narrowed to one byte
Sha1(c) == (c * 37 + 101) % 256

HexDigit(n) ==
  CASE n = 0 -> "0" [] n = 1 -> "1" [] n = 2 -> "2" [] n = 3 -> "3"
    [] n = 4 -> "4" [] n = 5 -> "5" [] n = 6 -> "6" [] n = 7 -> "7"
    [] n = 8 -> "8" [] n = 9 -> "9" [] n = 10 -> "a" [] n = 11 -> "b"
    [] n = 12 -> "c" [] n = 13 -> "d" [] n = 14 -> "e" [] n = 15 -> "f"

\* fmt.Sprintf("%x", sum): lower-case hexadecimal, two digits per byte
Hex(n) == <<HexDigit(n \div 16), HexDigit(n % 16)>>

(* ------------------------------ catalog -------------------------------- *)
fileInfo(url, sum) == [URL |-> url, SHA1 |-> sum]

\* strings.HasSuffix
HasSuffix(s, suf) ==
  /\ Len(s) >= Len(suf)
  /\ SubSeq(s, Len(s) - Len(suf) + 1, Len(s)) = suf

Suffix7z == <<".", "7", "z">>
SuffixBz2 == <<".", "b", "z", "2">>
SuffixGz == <<".", "g", "z">>

\* the catalog held by the hub: name -> ordered descriptors. The digest of
\* first "sums" descriptor is written in upper case, so no content matches it.
file2Info ==
  [n \in {"empty", "pages", "stubs", "sums"} |->
     CASE n = "empty" -> <<>>
       [] n = "pages" -> << fileInfo(<<"p", ".", "7", "z">>, Hex(Sha1(1))),
                            fileInfo(<<"q", ".", "b", "z", "2">>, Hex(Sha1(1))) >>
       [] n = "stubs" -> << fileInfo(<<"s", ".", "g", "z">>, Hex(Sha1(1))),
                            fileInfo(<<"t", ".", "x", "m", "l">>, Hex(Sha1(2))) >>
       [] n = "sums"  -> << fileInfo(<<"m", ".", "t", "x", "t">>, <<"8", "A">>),
                            fileInfo(<<"n", ".", "g", "z">>, Hex(Sha1(1))) >>]

\* the names a caller may pass to Open; "nope" is not in the catalog
Filenames == DOMAIN file2Info \cup {"nope"}

(* ------------------------------- errors -------------------------------- *)
\* an error value: its kind, the URL it embeds and the backoff value of the
\* attempt that produced it (two attempts produce two distinct values)
Nil == [kind |-> "nil", url |-> <<>>, at |-> 0]
EOF == [kind |-> "EOF", url |-> <<>>, at |-> 0]
Error(kind, url, at) == [kind |-> kind, url |-> url, at |-> at]

\* the zero virtualFile
NoFile == [name |-> 0, closed |-> TRUE]

VARIABLES
  panicked,   \* a nil *os.File was dereferenced: the process is gone
  disk,       \* the files of tmpDir
  pc,         \* position of each iterator's caller / in-flight call
  opened,     \* the filename each iterator was opened with
  ffi,        \* closure variable of Open: remaining descriptors
  err,        \* closure variable of Open: the remembered error
  ctxDone,    \* whether the context of the in-flight call is cancelled
  t,          \* loop variable of stubbornStore
  tempFile,   \* local of store: the handle of the temp file
  serr,       \* named result err of stubbornStore (last store error)
  attempts,   \* number of store attempts begun by the in-flight call
  streams,    \* the streams each iterator has returned, in order
  last,       \* what the latest call returned
  failed,     \* the first error other than io.EOF an iterator returned
  fetched,    \* the descriptors each iterator passed to w.open, in order
  hist,       \* the failed attempts of the latest fetch: "none" so far,
              \* "mismatch" (digest mismatches only) or "mixed"
  cancelAt,   \* when the context of the latest fetch was cancelled:
              \* "none", "call" (before the call), "store" or "wait"
  released    \* how many times the release action (fclose) has run on the
              \* temp file of the latest store attempt

vars == <<panicked, disk, pc, opened, ffi, err, ctxDone, t, tempFile, serr,
          attempts, streams, last, failed, fetched, hist, cancelAt,
          released>>

(* ------------------------------ helpers -------------------------------- *)
\* the positions at which a call of the iterator is in flight
InFlight == {"tempfile", "stream", "copy", "close", "checkfile", "reopen",
             "wait", "decompress"}

\* the positions at which a call died: in store (line 141) and in
\* checkFileSHA1 (line 167)
Panics == {"panic", "panicCheck"}

\* ioutil.TempFile: a name no file of the directory has
FreshName(d) == CHOOSE n \in 1..(Cardinality(d) + 1) : \A f \in d : f.id # n

Exists(d, n) == \E f \in d : f.id = n

\* os.Remove
Remove(d, n) == {f \in d : f.id # n}

\* index, in the catalog entry, of the descriptor iterator i is fetching
Cur(i) == Len(file2Info[opened[i]]) - Len(ffi[i]) + 1

\* an fclose that closes the handle only
fcloseLeaky(d, f) == d

\* fclose of store: close the handle, remove the file; the close error wins
fcloseDisk(d, f) == Remove(d, f.name)
fcloseErr(d, f) ==
  IF f.closed THEN "close" ELSE IF ~Exists(d, f.name) THEN "remove" ELSE "nil"

\* Close of a virtualFile: it runs the release action it was built with
virtualFileClose(d, f) == fcloseDisk(d, f)
virtualFileCloseErr(d, f) == fcloseErr(d, f)

\* the first error other than io.EOF that the calls so far returned
FirstFailure(f, e) == IF f = Nil /\ e \notin {Nil, EOF} THEN e ELSE f

\* a return that advances one cursor shared by all the iterators
ReturnsShared(i, r, e, st) ==
  /\ err' = [err EXCEPT ![i] = e]
  /\ ffi' = [j \in Iters |-> IF Len(ffi[j]) > 0 THEN Tail(ffi[j]) ELSE ffi[j]]
  /\ last' = [last EXCEPT ![i] = [r |-> r, err |-> e, via |-> "open"]]
  /\ streams' = [streams EXCEPT ![i] = IF e = Nil THEN Append(@, st) ELSE @]
  /\ failed' = [failed EXCEPT ![i] = FirstFailure(@, e)]
  /\ pc' = [pc EXCEPT ![i] = "idle"]

\* a return that leaves the sequence where it was
ReturnsInPlace(i, r, e, st) ==
  /\ err' = [err EXCEPT ![i] = e]
  /\ UNCHANGED ffi
  /\ last' = [last EXCEPT ![i] = [r |-> r, err |-> e, via |-> "open"]]
  /\ streams' = [streams EXCEPT ![i] = IF e = Nil THEN Append(@, st) ELSE @]
  /\ failed' = [failed EXCEPT ![i] = FirstFailure(@, e)]
  /\ pc' = [pc EXCEPT ![i] = "idle"]

\* the return of the closure of Open after w.open: remember the error,
\* advance the sequence, hand the result to the caller
Returns(i, r, e, st) ==
  /\ err' = [err EXCEPT ![i] = e]
  /\ ffi' = [ffi EXCEPT ![i] = Tail(ffi[i])]
  /\ last' = [last EXCEPT ![i] = [r |-> r, err |-> e, via |-> "open"]]
  /\ streams' = [streams EXCEPT ![i] = IF e = Nil THEN Append(@, st) ELSE @]
  /\ failed' = [failed EXCEPT ![i] = FirstFailure(@, e)]
  /\ pc' = [pc EXCEPT ![i] = "idle"]

\* the summary of the failed attempts of a fetch after one more failure
Record(h, e) ==
  IF e.kind = "MismatchedSHA1" /\ h \in {"none", "mismatch"}
    THEN "mismatch" ELSE "mixed"

\* a fail that keeps the error of the first failed attempt
FailKeepFirst(i, e) ==
  /\ disk' = fcloseDisk(disk, tempFile[i])
  /\ tempFile' = [tempFile EXCEPT ![i] = NoFile]
  /\ serr' = [serr EXCEPT ![i] = IF @ = Nil THEN e ELSE @]
  /\ hist' = [hist EXCEPT ![i] = Record(@, e)]
  /\ released' = [released EXCEPT ![i] = @ + 1]
  /\ pc' = [pc EXCEPT ![i] = "wait"]

\* store's fail(e): fclose, then return (virtualFile{}, e) to stubbornStore,
\* which goes on to its select
Fail(i, e) ==
  /\ disk' = fcloseDisk(disk, tempFile[i])
  /\ tempFile' = [tempFile EXCEPT ![i] = NoFile]
  /\ serr' = [serr EXCEPT ![i] = e]
  /\ hist' = [hist EXCEPT ![i] = Record(@, e)]
  /\ released' = [released EXCEPT ![i] = @ + 1]
  /\ pc' = [pc EXCEPT ![i] = "wait"]

(* ------------------------------- Init ---------------------------------- *)
Init ==
  /\ panicked = FALSE
  /\ disk = {}
  /\ pc = [i \in Iters |-> IF i = 1 THEN "unopened" ELSE "absent"]
  /\ opened = [i \in Iters |-> "nope"]
  /\ ffi = [i \in Iters |-> <<>>]
  /\ err = [i \in Iters |-> Nil]
  /\ ctxDone = [i \in Iters |-> FALSE]
  /\ t = [i \in Iters |-> Second]
  /\ tempFile = [i \in Iters |-> NoFile]
  /\ serr = [i \in Iters |-> Nil]
  /\ attempts = [i \in Iters |-> 0]
  /\ streams = [i \in Iters |-> <<>>]
  /\ last = [i \in Iters |-> [r |-> "nil", err |-> Nil, via |-> "none"]]
  /\ failed = [i \in Iters |-> Nil]
  /\ fetched = [i \in Iters |-> <<>>]
  /\ hist = [i \in Iters |-> "none"]
  /\ cancelAt = [i \in Iters |-> "none"]
  /\ released = [i \in Iters |-> 0]

(* ------------------------------ iterator ------------------------------- *)
\* a CheckFor that accepts every name
CheckForAny(filename) == Nil

\* CheckFor(filename)
CheckFor(filename) ==
  IF filename \in DOMAIN file2Info THEN Nil ELSE Error("NotFound", <<>>, 0)

\* w.file2Info[filename]: the zero value (nil slice) for a missing key
Lookup(filename) ==
  IF filename \in DOMAIN file2Info THEN file2Info[filename] ELSE <<>>

\* Open(filename): capture ffi and err in the closure
Open(i, filename) ==
  /\ ~panicked
  /\ pc[i] = "unopened"
  /\ opened' = [opened EXCEPT ![i] = filename]
  /\ ffi' = [ffi EXCEPT ![i] = Lookup(filename)]
  /\ err' = [err EXCEPT ![i] = CheckFor(filename)]
  /\ pc' = [pc EXCEPT ![i] = "idle"]
  /\ UNCHANGED <<panicked, disk, ctxDone, t, tempFile, serr, attempts,
                 streams, last, failed, fetched, hist, cancelAt, released>>

\* a closure that does not look at the remembered error
BranchForgetful(e, rest) == IF Len(rest) = 0 THEN "eof" ELSE "open"

\* which branch a call of the closure takes
Branch(e, rest) ==
  IF e # Nil THEN "sticky" ELSE IF Len(rest) = 0 THEN "eof" ELSE "open"

\* lines 53-55: the remembered error is returned again
Replay(i) ==
  /\ last' = [last EXCEPT ![i] = [r |-> "nil", err |-> err[i], via |-> "sticky"]]
  /\ failed' = [failed EXCEPT ![i] = FirstFailure(@, err[i])]
  /\ UNCHANGED <<err, pc, ctxDone, t, attempts, serr, fetched, hist,
                 cancelAt>>

\* a depleted iterator that reports success
DepletedSilent(i) ==
  /\ last' = [last EXCEPT ![i] = [r |-> "nil", err |-> Nil, via |-> "eof"]]
  /\ UNCHANGED <<err, pc, ctxDone, t, attempts, serr, failed, fetched, hist,
                 cancelAt>>

\* lines 56-59: the sequence is empty, io.EOF is remembered and returned
Depleted(i) ==
  /\ err' = [err EXCEPT ![i] = EOF]
  /\ last' = [last EXCEPT ![i] = [r |-> "nil", err |-> EOF, via |-> "eof"]]
  /\ UNCHANGED <<pc, ctxDone, t, attempts, serr, failed, fetched, hist,
                 cancelAt>>

\* a stubbornStore that looks at the context before its first attempt
FetchChecked(i, done) ==
  /\ ctxDone' = [ctxDone EXCEPT ![i] = done]
  /\ t' = [t EXCEPT ![i] = Second]
  /\ attempts' = [attempts EXCEPT ![i] = 0]
  /\ serr' = [serr EXCEPT ![i] = Nil]
  /\ fetched' = [fetched EXCEPT ![i] = Append(@, ffi[i][1])]
  /\ hist' = [hist EXCEPT ![i] = "none"]
  /\ cancelAt' = [cancelAt EXCEPT ![i] = IF done THEN "call" ELSE "none"]
  /\ pc' = [pc EXCEPT ![i] = IF done THEN "wait" ELSE "tempfile"]
  /\ UNCHANGED <<err, last, failed>>

\* lines 60-61: w.open(ctx, ffi[0]) enters stubbornStore (t := time.Second)
Fetch(i, done) ==
  /\ ctxDone' = [ctxDone EXCEPT ![i] = done]
  /\ t' = [t EXCEPT ![i] = Second]
  /\ attempts' = [attempts EXCEPT ![i] = 0]
  /\ serr' = [serr EXCEPT ![i] = Nil]
  /\ fetched' = [fetched EXCEPT ![i] = Append(@, ffi[i][1])]
  /\ hist' = [hist EXCEPT ![i] = "none"]
  /\ cancelAt' = [cancelAt EXCEPT ![i] = IF done THEN "call" ELSE "none"]
  /\ pc' = [pc EXCEPT ![i] = "tempfile"]
  /\ UNCHANGED <<err, last, failed>>

\* a call of the closure with a context that is cancelled already or not
Call(i, done) ==
  /\ ~panicked
  /\ pc[i] = "idle"
  /\ LET b == Branch(err[i], ffi[i]) IN
     CASE b = "sticky" -> Replay(i)
       [] b = "eof" -> Depleted(i)
       [] b = "open" -> Fetch(i, done)
  /\ UNCHANGED <<panicked, disk, opened, ffi, tempFile, streams, released>>

\* the caller cancels the context of the in-flight call while stubbornStore
\* runs (nothing reads the context after stubbornStore has returned)
Cancel(i) ==
  /\ ~panicked
  /\ pc[i] \in InFlight \ {"decompress"}
  /\ ~ctxDone[i]
  /\ ctxDone' = [ctxDone EXCEPT ![i] = TRUE]
  /\ cancelAt' = [cancelAt EXCEPT ![i] = IF pc[i] = "wait" THEN "wait" ELSE "store"]
  /\ UNCHANGED <<panicked, disk, pc, opened, ffi, err, t, tempFile, serr,
                 attempts, streams, last, failed, fetched, hist, released>>

(* ------------------------------- store --------------------------------- *)
\* store, line 99: ioutil.TempFile. On failure store returns at once: there
\* is no file to remove.
TempFile(i, ok) ==
  /\ ~panicked
  /\ pc[i] = "tempfile"
  /\ attempts' = [attempts EXCEPT ![i] = @ + 1]
  /\ released' = [released EXCEPT ![i] = 0]
  /\ IF ok
       THEN LET n == FreshName(disk) IN
            /\ disk' = disk \cup {[id |-> n, content |-> 0, by |-> i,
                                   res |-> Cur(i), at |-> t[i]]}
            /\ tempFile' = [tempFile EXCEPT ![i] = [name |-> n, closed |-> FALSE]]
            /\ pc' = [pc EXCEPT ![i] = "stream"]
            /\ UNCHANGED <<serr, hist>>
       ELSE /\ serr' = [serr EXCEPT ![i] = Error("TempFile", <<>>, t[i])]
            /\ hist' = [hist EXCEPT ![i] = Record(@, serr'[i])]
            /\ tempFile' = [tempFile EXCEPT ![i] = NoFile]
            /\ pc' = [pc EXCEPT ![i] = "wait"]
            /\ UNCHANGED disk
  /\ UNCHANGED <<panicked, opened, ffi, err, ctxDone, t, streams, last, failed,
                 fetched, cancelAt>>

\* stream(ctx, fi): http.NewRequest and http.DefaultClient.Do; a request
\* whose context is cancelled fails
Stream(i, out) ==
  /\ ~panicked
  /\ pc[i] = "stream"
  /\ ctxDone[i] => out # "ok"
  /\ IF out = "ok"
       THEN /\ pc' = [pc EXCEPT ![i] = "copy"]
            /\ UNCHANGED <<disk, tempFile, serr, hist, released>>
       ELSE Fail(i, Error(out, ffi[i][1].URL, t[i]))
  /\ UNCHANGED <<panicked, opened, ffi, err, ctxDone, t, attempts, streams,
                 last, failed, fetched, cancelAt>>

\* a copy that never compares the sum with fi.SHA1
CopyUnchecked(i, c, ok) ==
  /\ ~panicked
  /\ pc[i] = "copy"
  /\ IF ~ok
       THEN Fail(i, Error("Copy", ffi[i][1].URL, t[i]))
       ELSE /\ disk' = {IF f.id = tempFile[i].name
                          THEN [f EXCEPT !.content = c] ELSE f : f \in disk}
            /\ pc' = [pc EXCEPT ![i] = "close"]
            /\ UNCHANGED <<tempFile, serr, hist, released>>
  /\ UNCHANGED <<panicked, opened, ffi, err, ctxDone, t, attempts, streams,
                 last, failed, fetched, cancelAt>>

\* store, lines 123-131: io.Copy to the file and to the hash, then the
\* comparison of the hexadecimal sum with fi.SHA1
Copy(i, c, ok) ==
  /\ ~panicked
  /\ pc[i] = "copy"
  /\ IF ~ok
       THEN Fail(i, Error("Copy", ffi[i][1].URL, t[i]))
       ELSE IF Hex(Sha1(c)) # ffi[i][1].SHA1
         THEN Fail(i, Error("MismatchedSHA1", ffi[i][1].URL, t[i]))
         ELSE /\ disk' = {IF f.id = tempFile[i].name
                            THEN [f EXCEPT !.content = c] ELSE f : f \in disk}
              /\ pc' = [pc EXCEPT ![i] = "close"]
              /\ UNCHANGED <<tempFile, serr, hist, released>>
  /\ UNCHANGED <<panicked, opened, ffi, err, ctxDone, t, attempts, streams,
                 last, failed, fetched, cancelAt>>

\* store, lines 133-135: tempFile.Close()
CloseFile(i, ok) ==
  /\ ~panicked
  /\ pc[i] = "close"
  /\ IF ok
       THEN /\ tempFile' = [tempFile EXCEPT ![i].closed = TRUE]
            /\ pc' = [pc EXCEPT ![i] = "checkfile"]
            /\ UNCHANGED <<disk, serr, hist, released>>
       ELSE Fail(i, Error("Close", ffi[i][1].URL, t[i]))
  /\ UNCHANGED <<panicked, opened, ffi, err, ctxDone, t, attempts, streams,
                 last, failed, fetched, cancelAt>>

\* checkFileSHA1: when os.Open fails f is nil and f.Name() dereferences it
checkFileSHA1(i, ok) ==
  /\ ~panicked
  /\ pc[i] = "checkfile"
  /\ IF ok
       THEN /\ pc' = [pc EXCEPT ![i] = "reopen"]
            /\ UNCHANGED panicked
       ELSE /\ panicked' = TRUE
            /\ pc' = [pc EXCEPT ![i] = "panicCheck"]
  /\ UNCHANGED <<disk, opened, ffi, err, ctxDone, t, tempFile, serr, attempts,
                 streams, last, failed, fetched, hist, cancelAt, released>>

\* store, lines 140-144: os.Open assigns tempFile; when it fails tempFile is
\* nil and the argument of fail, tempFile.Name(), dereferences it before
\* fail runs. On success store returns the virtualFile, stubbornStore
\* returns it, and open goes on to its switch.
Reopen(i, ok) ==
  /\ ~panicked
  /\ pc[i] = "reopen"
  /\ IF ok
       THEN /\ tempFile' = [tempFile EXCEPT ![i].closed = FALSE]
            /\ serr' = [serr EXCEPT ![i] = Nil]
            /\ pc' = [pc EXCEPT ![i] = "decompress"]
            /\ UNCHANGED panicked
       ELSE /\ panicked' = TRUE
            /\ pc' = [pc EXCEPT ![i] = "panic"]
            /\ UNCHANGED <<tempFile, serr>>
  /\ UNCHANGED <<disk, opened, ffi, err, ctxDone, t, attempts, streams, last,
                 failed, fetched, hist, cancelAt, released>>

(* --------------------------- stubbornStore ----------------------------- *)
\* a loop that goes on until the wait reaches two hours
LoopCondLate(tv) == tv < 2 * Hour

\* the condition of the loop of stubbornStore: t < time.Hour
LoopCond(tv) == tv < Hour

\* a wait that is a plain sleep
SelectSleep(done) == {"timer"}

\* the cases the select after a failed attempt can take. The timer of
\* time.After(t) has at least a second to run when the select begins, so a
\* context that is done, before the select or during it, is the case taken.
Select(done) == IF done THEN {"ctx"} ELSE {"timer"}

\* a cancelled wait that returns the results of the last store
WaitCancelledLast(i) ==
  /\ ~panicked
  /\ pc[i] = "wait"
  /\ "ctx" \in Select(ctxDone[i])
  /\ Returns(i, "empty", serr[i], NoFile)
  /\ UNCHANGED <<panicked, disk, opened, ctxDone, t, tempFile, serr, attempts,
                 fetched, hist, cancelAt, released>>

\* case <-ctx.Done(): return virtualFile{} and the wrapped ctx.Err()
WaitCancelled(i) ==
  /\ ~panicked
  /\ pc[i] = "wait"
  /\ "ctx" \in Select(ctxDone[i])
  /\ Returns(i, "empty", Error("Context", <<>>, t[i]), NoFile)
  /\ UNCHANGED <<panicked, disk, opened, ctxDone, t, tempFile, serr, attempts,
                 fetched, hist, cancelAt, released>>

\* case <-time.After(t); then t = t * 2 and the loop condition; when it is
\* false stubbornStore returns its named results, those of the last store
WaitElapsed(i) ==
  /\ ~panicked
  /\ pc[i] = "wait"
  /\ "timer" \in Select(ctxDone[i])
  /\ t' = [t EXCEPT ![i] = @ * 2]
  /\ IF LoopCond(t[i] * 2)
       THEN /\ pc' = [pc EXCEPT ![i] = "tempfile"]
            /\ UNCHANGED <<err, ffi, last, streams, failed>>
       ELSE Returns(i, "empty", serr[i], NoFile)
  /\ UNCHANGED <<panicked, disk, opened, ctxDone, tempFile, serr, attempts,
                 fetched, hist, cancelAt, released>>

(* ----------------------- decompression selector ------------------------ *)
\* the switch of open on the suffix of the URL, in its order
Encoding(url) ==
  IF HasSuffix(url, Suffix7z) THEN "7z"
  ELSE IF HasSuffix(url, SuffixBz2) THEN "bz2"
  ELSE IF HasSuffix(url, SuffixGz) THEN "gz"
  ELSE "none"

\* the results the decompressor of an encoding may have: gzip.NewReader may
\* reject the header; bzip2.NewReader cannot fail; un7Zip fails in filename,
\* in lzmadec.NewArchive, on the entry count or in GetFileReader
Outcomes(enc) ==
  CASE enc = "gz" -> {"ok", "GzipHeader"}
    [] enc = "7z" -> {"ok", "Cast", "ArchiveList", "EntriesCount", "ArchiveOpen"}
    [] OTHER -> {"ok"}

\* filename: the two type assertions, then f.Close(); the handle is closed
\* only when both assertions held
AfterFilename(f, out) == IF out = "Cast" THEN f ELSE [f EXCEPT !.closed = TRUE]

\* the record of a stream handed to the caller
\* decoder: the gzip.Reader of unGZip or the entry reader of un7Zip ("none"
\* where the stream has no closeable decoder); releases: the runs of fclose
NewStream(i, enc, f) ==
  [fi |-> ffi[i][1], res |-> Cur(i), name |-> f.name, enc |-> enc,
   fileClosed |-> f.closed, closed |-> FALSE, closeErr |-> "nil",
   decoder |-> IF enc \in {"gz", "7z"} THEN "open" ELSE "none",
   decErr |-> "nil", spoolErr |-> "nil", releases |-> released[i]]

\* a decompression step whose unGZip forgets ri.Close() when the header is bad
DecompressLeaky(i, out) ==
  /\ ~panicked
  /\ pc[i] = "decompress"
  /\ LET enc == Encoding(ffi[i][1].URL)
         f == IF enc = "7z" THEN AfterFilename(tempFile[i], out) ELSE tempFile[i]
     IN  /\ out \in Outcomes(enc)
         /\ IF out = "ok"
              THEN /\ Returns(i, "stream", Nil, NewStream(i, enc, f))
                   /\ UNCHANGED <<disk, released>>
              ELSE /\ Returns(i, "nil", Error(out, ffi[i][1].URL, t[i]), NoFile)
                   /\ IF enc = "gz"
                        THEN UNCHANGED <<disk, released>>
                        ELSE /\ disk' = virtualFileClose(disk, f)
                             /\ released' = [released EXCEPT ![i] = @ + 1]
  /\ tempFile' = [tempFile EXCEPT ![i] = NoFile]
  /\ UNCHANGED <<panicked, opened, ctxDone, t, serr, attempts, fetched, hist,
                 cancelAt>>

\* open, lines 69-80, after a successful stubbornStore: unGZip, unBZip2,
\* un7Zip or nothing; every failure of a decompressor closes ri first
Decompress(i, out) ==
  /\ ~panicked
  /\ pc[i] = "decompress"
  /\ LET enc == Encoding(ffi[i][1].URL)
         f == IF enc = "7z" THEN AfterFilename(tempFile[i], out) ELSE tempFile[i]
     IN  /\ out \in Outcomes(enc)
         /\ IF out = "ok"
              THEN /\ Returns(i, "stream", Nil, NewStream(i, enc, f))
                   /\ UNCHANGED <<disk, released>>
              ELSE /\ Returns(i, "nil", Error(out, ffi[i][1].URL, t[i]), NoFile)
                   /\ disk' = virtualFileClose(disk, f)
                   /\ released' = [released EXCEPT ![i] = @ + 1]
  /\ tempFile' = [tempFile EXCEPT ![i] = NoFile]
  /\ UNCHANGED <<panicked, opened, ctxDone, t, serr, attempts, fetched, hist,
                 cancelAt>>

\* a bzip2 stream whose Close does not reach the spooled file
CloserDiskKeep(st, d) ==
  LET f == [name |-> st.name, closed |-> st.fileClosed]
  IN  IF st.enc = "bz2" THEN d ELSE virtualFileClose(d, f)

\* the Close of a returned stream, on the disk. Every closer ends in the
\* Close of the virtualFile; the closer of un7Zip then also calls
\* os.Remove(fname).
CloserDisk(st, d) ==
  LET f == [name |-> st.name, closed |-> st.fileClosed]
  IN  IF st.enc = "7z" THEN Remove(virtualFileClose(d, f), st.name)
      ELSE virtualFileClose(d, f)

\* the error of ri.Close() in a closer: that of the Close of the handle,
\* else that of the release action
SpoolErr(st, d, handleErr) ==
  LET f == [name |-> st.name, closed |-> st.fileClosed]
  IN  IF handleErr # "nil" THEN handleErr ELSE virtualFileCloseErr(d, f)

\* a closer of unGZip that reports the error of the spooled file first
CloserErrSpoolFirst(st, d, decoderErr, handleErr) ==
  LET e == SpoolErr(st, d, handleErr)
  IN  CASE st.enc = "gz" -> IF e # "nil" THEN e ELSE decoderErr
        [] st.enc = "7z" -> IF e # "nil" THEN e ELSE "remove"
        [] OTHER -> e

\* the error of the Close of a returned stream: the first one of the closer
CloserErr(st, d, decoderErr, handleErr) ==
  LET e == SpoolErr(st, d, handleErr)
  IN  CASE st.enc = "gz" -> IF decoderErr # "nil" THEN decoderErr ELSE e
        [] st.enc = "7z" -> IF e # "nil" THEN e ELSE "remove"
        [] OTHER -> e

\* the decoder after the closer ran: unGZip's closer calls ro.Close();
\* un7Zip's closer calls ri.Close() and os.Remove(fname), never r.Close()
CloserDecoder(st) == IF st.enc = "gz" THEN "closed" ELSE st.decoder

\* the caller closes the k-th stream it was given; the Close of the gzip
\* decoder and the Close of the spool handle may each report an error
CloseStream(i, k, decoderErr, handleErr) ==
  /\ ~panicked
  /\ k \in 1..Len(streams[i])
  /\ ~streams[i][k].closed
  /\ decoderErr # "nil" => streams[i][k].enc = "gz"
  /\ disk' = CloserDisk(streams[i][k], disk)
  /\ streams' = [streams EXCEPT ![i][k] =
                   [@ EXCEPT !.closed = TRUE, !.fileClosed = TRUE,
                             !.decoder = CloserDecoder(streams[i][k]),
                             !.decErr = decoderErr,
                             !.spoolErr = SpoolErr(streams[i][k], disk, handleErr),
                             !.releases = @ + 1,
                             !.closeErr = CloserErr(streams[i][k], disk,
                                                    decoderErr, handleErr)]]
  /\ UNCHANGED <<panicked, pc, opened, ffi, err, ctxDone, t, tempFile, serr,
                 attempts, last, failed, fetched, hist, cancelAt, released>>

(* --------------------------- specification ----------------------------- *)
Next ==
  \E i \in Iters :
    \/ \E filename \in Filenames : Open(i, filename)
    \/ \E done \in BOOLEAN : Call(i, done)
    \/ Cancel(i)
    \/ \E ok \in BOOLEAN : TempFile(i, ok)
    \/ \E out \in {"ok", "Request", "Network"} : Stream(i, out)
    \/ \E c \in Contents, ok \in BOOLEAN : Copy(i, c, ok)
    \/ \E ok \in BOOLEAN : CloseFile(i, ok)
    \/ \E ok \in BOOLEAN : checkFileSHA1(i, ok)
    \/ \E ok \in BOOLEAN : Reopen(i, ok)
    \/ WaitCancelled(i)
    \/ WaitElapsed(i)
    \/ \E out \in {"ok", "GzipHeader", "Cast", "ArchiveList", "EntriesCount",
                   "ArchiveOpen"} : Decompress(i, out)
    \/ \E k \in 1..2, e \in {"nil", "gzip"}, h \in {"nil", "close"} :
         CloseStream(i, k, e, h)

Spec == Init /\ [][Next]_vars

(* ------------------- two iterators of the same hub --------------------- *)
\* both iterators can be opened
InitTwo ==
  /\ panicked = FALSE
  /\ disk = {}
  /\ pc = [i \in Iters |-> "unopened"]
  /\ opened = [i \in Iters |-> "nope"]
  /\ ffi = [i \in Iters |-> <<>>]
  /\ err = [i \in Iters |-> Nil]
  /\ ctxDone = [i \in Iters |-> FALSE]
  /\ t = [i \in Iters |-> Second]
  /\ tempFile = [i \in Iters |-> NoFile]
  /\ serr = [i \in Iters |-> Nil]
  /\ attempts = [i \in Iters |-> 0]
  /\ streams = [i \in Iters |-> <<>>]
  /\ last = [i \in Iters |-> [r |-> "nil", err |-> Nil, via |-> "none"]]
  /\ failed = [i \in Iters |-> Nil]
  /\ fetched = [i \in Iters |-> <<>>]
  /\ hist = [i \in Iters |-> "none"]
  /\ cancelAt = [i \in Iters |-> "none"]
  /\ released = [i \in Iters |-> 0]

\* the steps of the two iterators, interleaved, in an environment where a
\* context is cancelled before the call or never, a request fails exactly
\* when its context is cancelled, and the mirror serves a wrong content
\* during the first attempt of a fetch only
NextTwo ==
  \E i \in Iters :
    \/ \E filename \in {"stubs", "empty", "nope"} : Open(i, filename)
    \/ \E done \in BOOLEAN : Call(i, done)
    \/ TempFile(i, TRUE)
    \/ \E out \in {"ok", "Network"} :
         /\ (out = "ok") = ~ctxDone[i]
         /\ Stream(i, out)
    \/ \E c \in Contents :
         /\ pc[i] = "copy"
         /\ Hex(Sha1(c)) = ffi[i][1].SHA1 \/ t[i] = Second
         /\ Copy(i, c, TRUE)
    \/ CloseFile(i, TRUE)
    \/ checkFileSHA1(i, TRUE)
    \/ \E ok \in BOOLEAN : Reopen(i, ok)
    \/ WaitCancelled(i)
    \/ WaitElapsed(i)
    \/ \E out \in {"ok", "GzipHeader"} : Decompress(i, out)
    \/ \E k \in 1..2 : CloseStream(i, k, "nil", "nil")

SpecTwo == InitTwo /\ [][NextTwo]_vars

(* ------------------------- scheduling of a call ------------------------ *)
\* the steps of an in-flight call of iterator i: each one is a system call,
\* a network attempt or a timer, and the call goes on as soon as it is over
Step(i) ==
  \/ \E ok \in BOOLEAN : TempFile(i, ok)
  \/ \E out \in {"ok", "Request", "Network"} : Stream(i, out)
  \/ \E c \in Contents, ok \in BOOLEAN : Copy(i, c, ok)
  \/ \E ok \in BOOLEAN : CloseFile(i, ok)
  \/ \E ok \in BOOLEAN : checkFileSHA1(i, ok)
  \/ \E ok \in BOOLEAN : Reopen(i, ok)
  \/ WaitCancelled(i)
  \/ WaitElapsed(i)
  \/ \E out \in {"ok", "GzipHeader", "Cast", "ArchiveList", "EntriesCount",
                 "ArchiveOpen"} : Decompress(i, out)

\* every single attempt terminates and every timer fires
SpecFair == Init /\ [][Next]_vars /\ \A i \in Iters : WF_vars(Step(i))

(* ------------------------------ properties ----------------------------- *)
\* the files of the spool directory written by iterator i for its k-th resource
FilesOf(d, i, k) == {f \in d : f.by = i /\ f.res = k}
FilesBy(d, i) == {f \in d : f.by = i}

\* C1. Sticky failure: once a call of an iterator has returned an error other
\* than io.EOF, every step leaves the iterator idle with that same error as
\* its latest result, a later call returns it with a nil stream, and no store
\* attempt is begun nor any temp file created for that iterator again.
C1_StickyFailure ==
  [][\A i \in Iters :
       failed[i] # Nil =>
         /\ pc'[i] = "idle"
         /\ last'[i].err = failed[i]
         /\ last'[i] # last[i] => last'[i].r = "nil" /\ last'[i].via = "sticky"
         /\ attempts'[i] = attempts[i]
         /\ fetched'[i] = fetched[i]
         /\ FilesBy(disk', i) \subseteq FilesBy(disk, i)]_vars

\* a fetch failed while a descriptor was still to come, and a later call
\* replayed the error
C1_Witness ==
  \E i \in Iters :
    /\ failed[i] # Nil /\ failed[i].kind # "NotFound"
    /\ last[i].via = "sticky"
    /\ Len(ffi[i]) > 0

\* C2. In-order consumption: the descriptors an iterator has run through the
\* fetch pipeline are, in order and without repetition, the first ones of its
\* catalog entry, and the k-th stream it returned is the stream of the k-th.
C2_InOrder ==
  \A i \in Iters :
    LET all == Lookup(opened[i]) IN
    /\ Len(fetched[i]) <= Len(all)
    /\ fetched[i] = SubSeq(all, 1, Len(fetched[i]))
    /\ Len(fetched[i]) + Len(ffi[i]) =
         Len(all) + (IF pc[i] \in InFlight \cup Panics THEN 1 ELSE 0)
    /\ Len(streams[i]) <= Len(fetched[i])
    /\ \A k \in 1..Len(streams[i]) :
         streams[i][k].fi = all[k] /\ streams[i][k].res = k

\* the second call returned the stream of the second descriptor
C2_Witness ==
  \E i \in Iters : Len(streams[i]) = 2 /\ last[i].r = "stream"

\* C3. End of sequence: from an idle iterator without error whose sequence is
\* empty, every call returns io.EOF with a nil stream, the iterator stays
\* idle and empty, and no store attempt or temp file results.
C3_EndOfSequence ==
  [][\A i \in Iters :
       pc[i] = "idle" /\ Len(ffi[i]) = 0 /\ err[i] \in {Nil, EOF} =>
         /\ pc'[i] = "idle"
         /\ Len(ffi'[i]) = 0
         /\ err'[i] \in {Nil, EOF}
         /\ last'[i] # last[i] =>
              last'[i].r = "nil" /\ last'[i].err = EOF /\ err'[i] = EOF
         /\ attempts'[i] = attempts[i]
         /\ fetched'[i] = fetched[i]
         /\ FilesBy(disk', i) \subseteq FilesBy(disk, i)]_vars

\* io.EOF was replayed by a later call, after two streams or for a name
\* without resources
C3_Witness ==
  \E i \in Iters :
    /\ last[i].via = "sticky" /\ last[i].err = EOF /\ last[i].r = "nil"
    /\ Len(streams[i]) = Len(Lookup(opened[i]))
    /\ Len(streams[i]) = 2

\* C4. Unknown name: an iterator opened for a name that is not in the catalog
\* answers every call with the one "not found" error and a nil stream; it is
\* never in flight, begins no store attempt and owns no temp file.
C4_UnknownName ==
  \A i \in Iters :
    pc[i] \notin {"absent", "unopened"} /\ opened[i] \notin DOMAIN file2Info =>
      /\ pc[i] = "idle"
      /\ err[i].kind = "NotFound"
      /\ last[i].via # "none" =>
           last[i].err = err[i] /\ last[i].r = "nil" /\ failed[i] = err[i]
      /\ attempts[i] = 0
      /\ fetched[i] = <<>>
      /\ FilesBy(disk, i) = {}

\* a call on an iterator of the unknown name has returned
C4_Witness ==
  \E i \in Iters : opened[i] = "nope" /\ last[i].via = "sticky"

RECURSIVE Pow2(_)
Pow2(n) == IF n = 0 THEN 1 ELSE 2 * Pow2(n - 1)

\* a descriptor whose digest is the digest of no content a mirror serves
NeverMatches(d) == \A c \in Contents : Hex(Sha1(c)) # d.SHA1

Matches(d, n, sum) ==
  \E f \in d : f.id = n /\ Hex(Sha1(f.content)) = sum

\* C5. Digest before handoff: the spool file of every stream the caller
\* holds, and the file of an attempt that has passed the comparison, holds a
\* content whose digest is the descriptor's; an attempt that ended in a
\* mismatch has handed over nothing, its file is gone, and the attempt that
\* follows the wait starts again without a file.
C5_DigestBeforeHandoff ==
  \A i \in Iters :
    /\ \A k \in 1..Len(streams[i]) :
         ~streams[i][k].closed =>
           Matches(FilesOf(disk, i, k), streams[i][k].name, streams[i][k].fi.SHA1)
    /\ pc[i] \in {"close", "checkfile", "reopen", "decompress"} =>
         Matches(FilesOf(disk, i, Cur(i)), tempFile[i].name, ffi[i][1].SHA1)
    /\ pc[i] = "wait" /\ serr[i].kind = "MismatchedSHA1" =>
         tempFile[i] = NoFile /\ FilesOf(disk, i, Cur(i)) = {}
    /\ pc[i] = "tempfile" =>
         tempFile[i] = NoFile /\ FilesOf(disk, i, Cur(i)) = {}

\* a stream was returned by a fetch whose earlier attempt was a mismatch
C5_Witness ==
  \E i \in Iters :
    /\ pc[i] = "idle" /\ last[i].r = "stream" /\ last[i].via = "open"
    /\ hist[i] = "mismatch"
    /\ ~streams[i][Len(streams[i])].closed

\* C6. Persistent digest mismatch: a fetch of a descriptor that no content
\* matches never returns a stream and leaves no file of its attempts; when
\* the context was not cancelled and every attempt reached the comparison,
\* it returns the mismatch error after the twelve attempts.
C6_PersistentMismatch ==
  \A i \in Iters :
    ( /\ pc[i] = "idle" /\ last[i].via = "open"
      /\ NeverMatches(fetched[i][Len(fetched[i])]) ) =>
        /\ last[i].err # Nil
        /\ last[i].r = "empty"
        /\ FilesOf(disk, i, Len(fetched[i])) = {}
        /\ ~ctxDone[i] /\ hist[i] = "mismatch" =>
             /\ last[i].err.kind = "MismatchedSHA1"
             /\ last[i].err.url = fetched[i][Len(fetched[i])].URL
             /\ attempts[i] = 12

\* the retries of such a fetch were exhausted without cancellation
C6_Witness ==
  \E i \in Iters :
    /\ pc[i] = "idle" /\ last[i].via = "open"
    /\ NeverMatches(fetched[i][Len(fetched[i])])
    /\ ~ctxDone[i] /\ hist[i] = "mismatch" /\ attempts[i] = 12

\* C7. Bounded exponential backoff: a fetch makes at most 12 store attempts;
\* the wait after the k-th failed attempt is 2^(k-1) seconds, at most 2048;
\* an attempt is in progress only with a wait below one hour.
C7_BoundedBackoff ==
  \A i \in Iters :
    /\ attempts[i] <= 12
    /\ pc[i] = "wait" =>
         /\ attempts[i] >= 1
         /\ t[i] = Pow2(attempts[i] - 1) * Second
         /\ t[i] <= 2048
    /\ pc[i] = "tempfile" => t[i] = Pow2(attempts[i]) * Second /\ t[i] < 3600
    /\ pc[i] \in {"stream", "copy", "close", "checkfile", "reopen"} =>
         t[i] = Pow2(attempts[i] - 1) * Second /\ t[i] < 3600

\* the wait after the twelfth failed attempt
C7_Witness ==
  \E i \in Iters : pc[i] = "wait" /\ attempts[i] = 12 /\ t[i] = 2048

\* C8. Cancellation during backoff: while a fetch is in its wait with the
\* context cancelled, the return of the cancellation error is enabled, and
\* the only way out of the wait is that return: the error wraps ctx.Err(), is
\* not the error of the failed attempt, comes with an empty SpooledFile, and
\* no store attempt is begun, no wait doubled and no temp file created.
C8_CancelDuringWait ==
  [][\A i \in Iters :
       pc[i] = "wait" /\ ctxDone[i] =>
         /\ ENABLED WaitCancelled(i)
         /\ \/ pc'[i] = "wait" /\ last'[i] = last[i]
            \/ /\ pc'[i] = "idle"
               /\ last'[i].err.kind = "Context"
               /\ last'[i].err # serr[i]
               /\ last'[i].r = "empty"
               /\ err'[i] = last'[i].err
         /\ attempts'[i] = attempts[i]
         /\ t'[i] = t[i]
         /\ FilesBy(disk', i) \subseteq FilesBy(disk, i)]_vars

\* a call returned the cancellation error of a context cancelled in the wait
C8_Witness ==
  \E i \in Iters :
    /\ pc[i] = "idle" /\ last[i].via = "open" /\ last[i].err.kind = "Context"
    /\ cancelAt[i] = "wait"

\* C9. Store failure cleanup: when a store attempt has ended at one of its
\* failure points, its temp file is closed and deleted and store has returned
\* an error naming that failure, with an empty SpooledFile.
C9_StoreFailureCleanup ==
  \A i \in Iters :
    pc[i] \in {"wait", "panic"} =>
      /\ serr[i].kind \in {"TempFile", "Request", "Network", "Copy",
                           "MismatchedSHA1", "Close", "Reopen"}
      /\ tempFile[i] = NoFile
      /\ FilesOf(disk, i, Cur(i)) = {}

\* C10. Spool ownership: as long as a returned stream is not closed, exactly
\* one spool file of its resource exists, the one it was given; once it is
\* closed none exists, for each encoding and whatever the iterator did next.
C10_SpoolOwnership ==
  \A i \in Iters : \A k \in 1..Len(streams[i]) :
    IF streams[i][k].closed
      THEN FilesOf(disk, i, k) = {}
      ELSE \E f \in disk : f.id = streams[i][k].name /\ FilesOf(disk, i, k) = {f}

\* the first stream, of a 7z resource, was closed and the second resource
\* was never requested
C10_Witness ==
  \E i \in Iters :
    /\ Len(streams[i]) = 1 /\ streams[i][1].closed /\ streams[i][1].enc = "7z"
    /\ pc[i] = "idle" /\ Len(ffi[i]) = 1 /\ last[i].via = "open"

\* C11. Release exactly once: the release action of the temp file of a store
\* attempt has run exactly once when the attempt has ended in a failure of
\* store, when the decompression step has failed, or when the caller has
\* closed the stream; it has not run while the stream is open, and it never
\* runs twice.
C11_ReleaseExactlyOnce ==
  \A i \in Iters :
    /\ released[i] <= 1
    /\ pc[i] = "wait" /\ serr[i].kind # "TempFile" => released[i] = 1
    /\ pc[i] \in Panics => released[i] = 1
    /\ ( /\ pc[i] = "idle" /\ last[i].via = "open"
         /\ last[i].r = "nil" /\ last[i].err # Nil ) => released[i] = 1
    /\ \A k \in 1..Len(streams[i]) :
         streams[i][k].releases = IF streams[i][k].closed THEN 1 ELSE 0

\* the same, for the attempts that did not die in os.Open
C11_ExceptPanic ==
  \A i \in Iters :
    /\ released[i] <= 1
    /\ pc[i] = "wait" /\ serr[i].kind # "TempFile" => released[i] = 1
    /\ ( /\ pc[i] = "idle" /\ last[i].via = "open"
         /\ last[i].r = "nil" /\ last[i].err # Nil ) => released[i] = 1
    /\ \A k \in 1..Len(streams[i]) :
         streams[i][k].releases = IF streams[i][k].closed THEN 1 ELSE 0

\* the positions inside one store attempt
StoreStages == {"tempfile", "stream", "copy", "close", "checkfile", "reopen"}

\* the errors of the decompression step
ArchiveKinds == {"GzipHeader", "Cast", "ArchiveList", "EntriesCount",
                 "ArchiveOpen"}

\* C12. Retry policy by error kind: a store attempt ends either in success
\* (the decompression step) or in the backoff wait with its error, and a wait
\* that elapses below the ceiling is followed by another attempt; the
\* decompression step ends the call at once, with the stream or with its own
\* error, without a further attempt, without a wait and without a spool file.
C12_RetryPolicy ==
  [][\A i \in Iters :
       /\ pc[i] \in StoreStages /\ pc'[i] \notin StoreStages =>
            \/ pc'[i] = "decompress" /\ serr'[i] = Nil
            \/ pc'[i] = "wait" /\ serr'[i] # Nil
       /\ pc[i] = "wait" /\ pc'[i] # "wait" /\ ~ctxDone[i] =>
            IF attempts[i] < 12 THEN pc'[i] = "tempfile" ELSE pc'[i] = "idle"
       /\ pc[i] = "decompress" /\ pc'[i] # "decompress" =>
            /\ pc'[i] = "idle"
            /\ attempts'[i] = attempts[i] /\ t'[i] = t[i]
            /\ last'[i].err # Nil =>
                 /\ last'[i].err.kind \in ArchiveKinds
                 /\ FilesOf(disk', i, Len(fetched[i])) = {}]_vars

\* the same, for the attempts that did not die in os.Open
C12_ExceptPanic ==
  [][\A i \in Iters :
       /\ pc[i] \in StoreStages /\ pc'[i] \notin StoreStages \cup Panics =>
            \/ pc'[i] = "decompress" /\ serr'[i] = Nil
            \/ pc'[i] = "wait" /\ serr'[i] # Nil
       /\ pc[i] = "wait" /\ pc'[i] # "wait" /\ ~ctxDone[i] =>
            IF attempts[i] < 12 THEN pc'[i] = "tempfile" ELSE pc'[i] = "idle"
       /\ pc[i] = "decompress" /\ pc'[i] # "decompress" =>
            /\ pc'[i] = "idle"
            /\ attempts'[i] = attempts[i] /\ t'[i] = t[i]
            /\ last'[i].err # Nil =>
                 /\ last'[i].err.kind \in ArchiveKinds
                 /\ FilesOf(disk', i, Len(fetched[i])) = {}]_vars

\* the errors of a store attempt
StoreKinds == {"TempFile", "Request", "Network", "Copy", "MismatchedSHA1",
               "Close"}

\* C13. Last error wins: when a call returns the error of a store attempt,
\* stubbornStore made its twelve attempts, the error is the one of the
\* twelfth (made with t = 2048 s), not an earlier one, and the SpooledFile
\* returned with it is empty.
C13_LastErrorWins ==
  \A i \in Iters :
    ( /\ pc[i] = "idle" /\ last[i].via = "open"
      /\ last[i].err.kind \in StoreKinds ) =>
        /\ attempts[i] = 12
        /\ last[i].err = serr[i]
        /\ last[i].err.at = 2048 * Second
        /\ last[i].r = "empty"
        /\ ~ctxDone[i]

\* the twelve attempts failed in more than one way and the call returned
C13_Witness ==
  \E i \in Iters :
    /\ pc[i] = "idle" /\ last[i].via = "open"
    /\ last[i].err.kind = "Network" /\ hist[i] = "mixed" /\ attempts[i] = 12

\* C14. Close of a solid-archive stream: once the caller has closed the
\* stream returned by un7Zip, the reader opened for the single entry of the
\* archive is closed and the spool file is gone from the disk.
C14_Close7z ==
  \A i \in Iters : \A k \in 1..Len(streams[i]) :
    streams[i][k].enc = "7z" /\ streams[i][k].closed =>
      /\ streams[i][k].decoder = "closed"
      /\ FilesOf(disk, i, k) = {}

\* the part of it that the closer of un7Zip does: the spool file is deleted
C14_Deletes ==
  \A i \in Iters : \A k \in 1..Len(streams[i]) :
    streams[i][k].enc = "7z" /\ streams[i][k].closed => FilesOf(disk, i, k) = {}

\* C15. Composed close of a gzip stream: once the caller has closed the
\* stream returned by unGZip, the decoder and the spool handle are both
\* closed and the spool file is released, whether or not the decoder's Close
\* failed; the error returned is the decoder's when it is not nil, otherwise
\* the one of the Close of the spooled file.
C15_CloseGzip ==
  \A i \in Iters : \A k \in 1..Len(streams[i]) :
    streams[i][k].enc = "gz" /\ streams[i][k].closed =>
      /\ streams[i][k].decoder = "closed"
      /\ streams[i][k].fileClosed
      /\ streams[i][k].releases = 1
      /\ FilesOf(disk, i, k) = {}
      /\ streams[i][k].closeErr =
           IF streams[i][k].decErr # "nil" THEN streams[i][k].decErr
           ELSE streams[i][k].spoolErr

\* a gzip stream was closed with both Closes failing
C15_Witness ==
  \E i \in Iters : \E k \in 1..Len(streams[i]) :
    /\ streams[i][k].enc = "gz" /\ streams[i][k].closed
    /\ streams[i][k].decErr = "gzip" /\ streams[i][k].spoolErr = "close"

\* C16. Decompression failure cleanup: when a call has returned an error, no
\* spool file of the resource it fetched remains; when the error is one of
\* the decompression step (gzip header, type assertion of filename, archive
\* listing, entry count, opening of the entry) the stream returned is nil,
\* no stream was recorded and the spool file was released once.
C16_DecompressCleanup ==
  \A i \in Iters :
    pc[i] = "idle" /\ last[i].via = "open" /\ last[i].err # Nil =>
      /\ FilesOf(disk, i, Len(fetched[i])) = {}
      /\ Len(streams[i]) < Len(fetched[i])
      /\ last[i].err.kind \in ArchiveKinds =>
           /\ last[i].r = "nil"
           /\ released[i] = 1
           /\ attempts[i] >= 1

\* a call ended on an archive with a number of entries other than one
C16_Witness ==
  \E i \in Iters :
    /\ pc[i] = "idle" /\ last[i].via = "open"
    /\ last[i].err.kind = "EntriesCount" /\ last[i].r = "nil"

\* what belongs to one iterator: its closure, its call in flight, its results
Local(i) ==
  <<pc[i], opened[i], ffi[i], err[i], ctxDone[i], t[i], tempFile[i], serr[i],
    attempts[i], streams[i], last[i], failed[i], fetched[i]>>

\* C17. Iterator independence: in every interleaving of the steps of two
\* iterators of one hub, a step that changes something of one iterator
\* leaves the other's remaining descriptors, remembered error, call in
\* flight, results and spool files as they were.
C17_Independence ==
  [][\A i, j \in Iters :
       i # j /\ Local(i)' # Local(i) =>
         /\ Local(j)' = Local(j)
         /\ FilesBy(disk', j) = FilesBy(disk, j)]_vars

\* two iterators of the same name: one failed and replayed its error, the
\* other went on and returned both streams
C17_Witness ==
  \E i, j \in Iters :
    /\ i # j /\ opened[i] = "stubs" /\ opened[j] = "stubs"
    /\ failed[i] # Nil /\ last[i].via = "sticky" /\ Len(ffi[i]) = 1
    /\ Len(streams[j]) = 2 /\ err[j] = Nil

\* C18. Termination: under the fair scheduling of SpecFair every call of an
\* iterator that is in flight eventually returns to its caller, which leaves
\* the iterator idle with a stream, io.EOF, a fetch error or the
\* cancellation error as its result.
C18_Termination ==
  \A i \in Iters : (pc[i] \in InFlight) ~> (pc[i] = "idle")

\* what holds instead: every call in flight eventually returns or panics,
\* so the backoff loop itself never runs forever
C18_ExceptPanic ==
  \A i \in Iters : (pc[i] \in InFlight) ~> (pc[i] \in {"idle"} \cup Panics)

\* C19. A wait follows every failed attempt, the last one too: a store
\* attempt that fails goes to the wait and never straight back to the
\* caller; in the wait after the twelfth failed attempt (2048 seconds) one of
\* the two cases of the select can be taken, no further attempt is begun,
\* and the call returns the error of the twelfth attempt when the wait
\* elapses and the cancellation error, not that error, when the context is
\* cancelled.
C19_WaitAfterLastAttempt ==
  [][\A i \in Iters :
       /\ pc[i] \in StoreStages /\ pc'[i] \notin StoreStages =>
            \/ pc'[i] = "wait" /\ serr'[i] # Nil /\ last'[i] = last[i]
            \/ pc'[i] = "decompress" /\ serr'[i] = Nil
            \/ pc'[i] \in Panics
       /\ pc[i] = "wait" /\ attempts[i] = 12 =>
            /\ t[i] = Pow2(11) * Second
            /\ serr[i] # Nil /\ serr[i].at = t[i]
            /\ ENABLED (WaitCancelled(i) \/ WaitElapsed(i))
            /\ pc'[i] \in {"wait", "idle"}
            /\ attempts'[i] = 12
            /\ FilesBy(disk', i) \subseteq FilesBy(disk, i)
            /\ pc'[i] = "idle" =>
                 /\ last'[i].r = "empty" /\ last'[i].via = "open"
                 /\ IF ctxDone[i]
                      THEN /\ last'[i].err.kind = "Context"
                           /\ last'[i].err # serr[i]
                           /\ t'[i] = t[i]
                      ELSE /\ last'[i].err = serr[i]
                           /\ t'[i] = 2 * t[i]
                           /\ ~LoopCond(t'[i])]_vars

\* the context was cancelled during the wait after the twelfth attempt and
\* the call returned the cancellation error
C19_Witness ==
  \E i \in Iters :
    /\ pc[i] = "idle" /\ last[i].via = "open" /\ attempts[i] = 12
    /\ cancelAt[i] = "wait" /\ last[i].err.kind = "Context"
    /\ last[i].err.at = Pow2(11) * Second

\* C20. Cancellation is observed only at the wait after a failed attempt:
\* a call returns the cancellation error only from that wait, with at least
\* one attempt made and failed; a store stage whose context is cancelled
\* goes on as store does (an attempt can still be begun, and it is counted);
\* a call whose context was cancelled before it began makes exactly one
\* attempt, leaves no temp file and returns the cancellation error; and an
\* attempt that succeeded with its context cancelled meanwhile goes on to
\* the decompression and can hand its stream to the caller.
C20_CancelOnlyAtWait ==
  [][\A i \in Iters :
       /\ ( /\ pc[i] \in InFlight /\ pc'[i] = "idle"
            /\ last'[i].err.kind = "Context" ) =>
              /\ pc[i] = "wait" /\ ctxDone[i]
              /\ attempts[i] >= 1 /\ serr[i] # Nil
       /\ pc[i] = "tempfile" /\ ctxDone[i] =>
            /\ ENABLED TempFile(i, TRUE)
            /\ pc'[i] # pc[i] =>
                 /\ attempts'[i] = attempts[i] + 1
                 /\ pc'[i] \in {"stream", "wait"}
       /\ pc[i] \in StoreStages /\ ctxDone[i] => pc'[i] # "idle"
       /\ pc[i] \in InFlight /\ pc'[i] = "idle" /\ cancelAt[i] = "call" =>
            /\ attempts[i] = 1
            /\ last'[i].err.kind = "Context" /\ last'[i].r = "empty"
            /\ FilesOf(disk', i, Len(fetched[i])) = {}
       /\ pc[i] = "reopen" /\ ctxDone[i] =>
            /\ ENABLED Reopen(i, TRUE)
            /\ pc'[i] \in {"reopen", "decompress"} \cup Panics
       /\ pc[i] = "decompress" /\ ctxDone[i] =>
            /\ ENABLED Decompress(i, "ok")
            /\ pc'[i] = "idle" => last'[i].err.kind # "Context"
            /\ pc'[i] = "idle" /\ last'[i].err = Nil =>
                 /\ last'[i].r = "stream"
                 /\ FilesOf(disk', i, Len(fetched[i])) # {}]_vars

\* a call whose context was cancelled before it began has made its one
\* attempt and returned the cancellation error
C20_Witness ==
  \E i \in Iters :
    /\ pc[i] = "idle" /\ last[i].via = "open" /\ cancelAt[i] = "call"
    /\ attempts[i] = 1 /\ last[i].err.kind = "Context"
    /\ serr[i].kind \in {"Request", "Network"}

\* a call handed over a stream although its context was cancelled while
\* the attempt ran
C20_WitnessStream ==
  \E i \in Iters :
    /\ pc[i] = "idle" /\ last[i].via = "open" /\ cancelAt[i] = "store"
    /\ ctxDone[i] /\ last[i].r = "stream" /\ last[i].err = Nil

====
